---- MODULE Spec2Model ----
(***************************************************************************)
(* Identity verification backend: the OTP service (otp_service.py), the    *)
(* OTP endpoints (routers/otp.py) and the face-session endpoints           *)
(* (routers/face.py).  Strings are sequences of one-character strings so   *)
(* that cleaning, stripping and validation are computed as the code does.  *)
(* Time is counted in minutes.                                             *)
(***************************************************************************)
EXTENDS Integers, Sequences, FiniteSets, TLC

VARIABLES
    otp_storage,      \* OTPService.otp_storage: phone -> record
    now,              \* datetime.now(), in minutes
    last,             \* the response of the request handled last
    uploaded_images,  \* routers/face.py uploaded_images: session id -> session
    face_matched,     \* history: some compare-faces call has returned is_match
    pending,          \* requests received and not yet run by the event loop
    overlap,          \* history: the request run last had a rival pending with it
    tally,            \* history: per phone, verify calls since the record was issued
    face_call         \* the face service call made last: its inputs and its result

vars == <<otp_storage, now, last, uploaded_images, face_matched, pending, overlap, tally,
         face_call>>

otpVars  == <<otp_storage, now, last>>
faceVars == <<uploaded_images, face_matched>>
concVars == <<pending, overlap, tally>>
svcVars  == <<face_call>>

(* ---------------- bounds ---------------- *)
MaxTicks == 2
MaxSessions == 3
MaxPending == 2

(* ---------------- program constants ---------------- *)
otp_expiry_minutes == 5
\* the clock is observed once per OTP lifetime
TickMinutes == otp_expiry_minutes
MaxTime == MaxTicks * TickMinutes
MaxAttempts == 3
OtpLength == 6

(* ---------------- inputs ---------------- *)
Phone9876543210 == <<"9", "8", "7", "6", "5", "4", "3", "2", "1", "0">>
PhoneDashed     == <<"9", "8", "7", "6", "5", "-", "4", "3", "2", "1", "0">>
Phone5123456789 == <<"5", "1", "2", "3", "4", "5", "6", "7", "8", "9">>
PhonePlus91Full == <<"+", "9", "1", "9", "8", "7", "6", "5", "4", "3", "2", "1", "0">>
PhonePlus91Ten  == <<"+", "9", "1", "8", "7", "6", "5", "4", "3", "2", "1">>
PhoneParens     == <<"(", "9", "8", "7", "6", "5", ")", "4", "3", "2", "1", "0">>

PhoneInputs == {Phone9876543210, PhoneDashed, Phone5123456789,
                PhonePlus91Full, PhonePlus91Ten, PhoneParens}

Code123456 == <<"1", "2", "3", "4", "5", "6">>
Code654321 == <<"6", "5", "4", "3", "2", "1">>

\* values random.choices(string.digits, k=6) can return (a sample of them)
Codes == {Code123456, Code654321}

OtpShort  == <<"1", "2", "3", "4", "5">>
OtpSpaced == <<" ", "1", "2", "3", "4", "5", "6", " ">>
OtpLetter == <<"1", "2", "3", "4", "5", "x">>

OtpInputs == Codes \cup {OtpShort, OtpSpaced, OtpLetter}

NoStr == <<>>

InputStrings == PhoneInputs \cup OtpInputs

(* ---------------- characters and strings ---------------- *)
Digits == {"0", "1", "2", "3", "4", "5", "6", "7", "8", "9"}

IsDigitChar(c) == c \in Digits

\* re.sub(r'\D', '', s)
DigitsOnly(s) == SelectSeq(s, IsDigitChar)

\* variant: every string counts as digits
isdigit_Any(s) == TRUE

\* str.isdigit()
isdigit(s) == Len(s) > 0 /\ \A i \in 1..Len(s) : s[i] \in Digits

RECURSIVE LStrip(_)
LStrip(s) == IF Len(s) > 0 /\ s[1] = " " THEN LStrip(Tail(s)) ELSE s

RECURSIVE RStrip(_)
RStrip(s) == IF Len(s) > 0 /\ s[Len(s)] = " " THEN RStrip(SubSeq(s, 1, Len(s) - 1)) ELSE s

\* str.strip(); the results for the input strings are tabulated once
StripTable == [s \in InputStrings |-> RStrip(LStrip(s))]

strip(s) == IF s \in InputStrings THEN StripTable[s] ELSE RStrip(LStrip(s))

\* str.replace(pat, ''): non-overlapping occurrences, scanned left to right
RECURSIVE RemoveAll(_, _)
RemoveAll(s, pat) ==
    IF Len(s) < Len(pat) THEN s
    ELSE IF SubSeq(s, 1, Len(pat)) = pat
         THEN RemoveAll(SubSeq(s, Len(pat) + 1, Len(s)), pat)
         ELSE <<s[1]>> \o RemoveAll(Tail(s), pat)

\* the phone strings the handlers clean: the inputs, raw or stripped
PhoneStrings == PhoneInputs \cup {StripTable[p] : p \in PhoneInputs}

Replace3(phone) ==
    RemoveAll(RemoveAll(RemoveAll(phone, <<"+", "9", "1">>), <<"-">>), <<" ">>)

CleanTable == [s \in PhoneStrings |-> Replace3(s)]

\* phone.replace('+91', '').replace('-', '').replace(' ', '')
CleanPhone(phone) == IF phone \in PhoneStrings THEN CleanTable[phone] ELSE Replace3(phone)

(* ---------------- OTPService ---------------- *)
Put(store, phone, rec) ==
    [k \in DOMAIN store \cup {phone} |-> IF k = phone THEN rec ELSE store[k]]

\* variant: deleting one record empties the store
Del_All(store, phone) == [k \in {} |-> store[k]]

Del(store, phone) == [k \in DOMAIN store \ {phone} |-> store[k]]

\* variant: the leading digit is not checked
IsIndianMobile_AnyLeadingDigit(phone) == Len(DigitsOnly(phone)) = 10

IsIndianMobile(phone) ==
    LET phone_clean == DigitsOnly(phone)
    IN  Len(phone_clean) = 10 /\ phone_clean[1] \in {"6", "7", "8", "9"}

\* the phone strings validate_phone is called with: stripped or cleaned inputs
ValidatedStrings == PhoneStrings \cup {CleanTable[p] : p \in PhoneStrings}

ValidTable == [s \in ValidatedStrings |-> IsIndianMobile(s)]

validate_phone(phone) ==
    IF phone \in ValidatedStrings THEN ValidTable[phone] ELSE IsIndianMobile(phone)

\* variant: the expiry is stored without the lifetime added
generate_otp_NoLifetime(store, t, phone, otp) ==
    IF ~validate_phone(phone)
    THEN [store |-> store, result |-> "InvalidPhone", otp |-> NoStr]
    ELSE [store  |-> Put(store, phone, [otp |-> otp, expiry |-> t, attempts |-> 0]),
          result |-> "Created",
          otp    |-> otp]

\* variant: a code is issued only once a face comparison has matched
generate_otp_AfterFaceMatch(store, t, phone, otp) ==
    IF ~validate_phone(phone)
    THEN [store |-> store, result |-> "InvalidPhone", otp |-> NoStr]
    ELSE IF ~face_matched
    THEN [store |-> store, result |-> "FaceNotMatched", otp |-> NoStr]
    ELSE [store  |-> Put(store, phone,
                         [otp |-> otp, expiry |-> t + otp_expiry_minutes, attempts |-> 0]),
          result |-> "Created",
          otp    |-> otp]

\* otp is the value drawn by random.choices
generate_otp(store, t, phone, otp) ==
    IF ~validate_phone(phone)
    THEN [store |-> store, result |-> "InvalidPhone", otp |-> NoStr]
    ELSE [store  |-> Put(store, phone,
                         [otp |-> otp, expiry |-> t + otp_expiry_minutes, attempts |-> 0]),
          result |-> "Created",
          otp    |-> otp]

\* variant: the code is compared before the attempt limit is checked
verify_otp_CompareBeforeLimit(store, t, phone, provided_otp) ==
    IF ~validate_phone(phone)
    THEN [store |-> store, result |-> "InvalidPhone", remaining |-> -1]
    ELSE IF phone \notin DOMAIN store
    THEN [store |-> store, result |-> "NoOtpFound", remaining |-> -1]
    ELSE IF t > store[phone].expiry
    THEN [store |-> Del(store, phone), result |-> "OtpExpired", remaining |-> -1]
    ELSE IF store[phone].otp = provided_otp
    THEN [store |-> Del(store, phone), result |-> "Verified", remaining |-> -1]
    ELSE IF store[phone].attempts >= MaxAttempts
    THEN [store |-> Del(store, phone), result |-> "AttemptsExceeded", remaining |-> -1]
    ELSE LET attempts == store[phone].attempts + 1
         IN  [store     |-> Put(store, phone, [store[phone] EXCEPT !.attempts = attempts]),
              result    |-> "InvalidOtp",
              remaining |-> MaxAttempts - attempts]

\* variant: a wrong code costs two attempts
verify_otp_DoubleIncrement(store, t, phone, provided_otp) ==
    IF ~validate_phone(phone)
    THEN [store |-> store, result |-> "InvalidPhone", remaining |-> -1]
    ELSE IF phone \notin DOMAIN store
    THEN [store |-> store, result |-> "NoOtpFound", remaining |-> -1]
    ELSE IF t > store[phone].expiry
    THEN [store |-> Del(store, phone), result |-> "OtpExpired", remaining |-> -1]
    ELSE IF store[phone].attempts >= MaxAttempts
    THEN [store |-> Del(store, phone), result |-> "AttemptsExceeded", remaining |-> -1]
    ELSE LET attempts == store[phone].attempts + 2
         IN  IF store[phone].otp = provided_otp
             THEN [store |-> Del(store, phone), result |-> "Verified", remaining |-> -1]
             ELSE [store     |-> Put(store, phone, [store[phone] EXCEPT !.attempts = attempts]),
                   result    |-> "InvalidOtp",
                   remaining |-> MaxAttempts - attempts]

\* variant: asking for the status costs an attempt
get_otp_status_CountsAttempt(store, t, phone) ==
    IF phone \notin DOMAIN store
    THEN [store |-> store, exists |-> FALSE, message |-> "NoOtpFound",
          attempts_remaining |-> -1, expires_in_seconds |-> -1]
    ELSE IF t > store[phone].expiry
    THEN [store |-> Del(store, phone), exists |-> FALSE, message |-> "OtpExpired",
          attempts_remaining |-> -1, expires_in_seconds |-> -1]
    ELSE [store |-> IF store[phone].attempts < MaxAttempts
                    THEN Put(store, phone,
                             [store[phone] EXCEPT !.attempts = store[phone].attempts + 1])
                    ELSE store,
          exists |-> TRUE, message |-> "OtpValid",
          attempts_remaining |-> MaxAttempts - store[phone].attempts,
          expires_in_seconds |-> (store[phone].expiry - t) * 60]

\* variant: the record is kept after a successful verification
verify_otp_KeepsVerified(store, t, phone, provided_otp) ==
    IF ~validate_phone(phone)
    THEN [store |-> store, result |-> "InvalidPhone", remaining |-> -1]
    ELSE IF phone \notin DOMAIN store
    THEN [store |-> store, result |-> "NoOtpFound", remaining |-> -1]
    ELSE IF t > store[phone].expiry
    THEN [store |-> Del(store, phone), result |-> "OtpExpired", remaining |-> -1]
    ELSE IF store[phone].attempts >= MaxAttempts
    THEN [store |-> Del(store, phone), result |-> "AttemptsExceeded", remaining |-> -1]
    ELSE LET attempts == store[phone].attempts + 1
         IN  IF store[phone].otp = provided_otp
             THEN [store |-> store, result |-> "Verified", remaining |-> -1]
             ELSE [store     |-> Put(store, phone, [store[phone] EXCEPT !.attempts = attempts]),
                   result    |-> "InvalidOtp",
                   remaining |-> MaxAttempts - attempts]

\* variant: the attempt limit is reached one call early
verify_otp_LimitOneEarly(store, t, phone, provided_otp) ==
    IF ~validate_phone(phone)
    THEN [store |-> store, result |-> "InvalidPhone", remaining |-> -1]
    ELSE IF phone \notin DOMAIN store
    THEN [store |-> store, result |-> "NoOtpFound", remaining |-> -1]
    ELSE IF t > store[phone].expiry
    THEN [store |-> Del(store, phone), result |-> "OtpExpired", remaining |-> -1]
    ELSE IF store[phone].attempts >= MaxAttempts - 1
    THEN [store |-> Del(store, phone), result |-> "AttemptsExceeded", remaining |-> -1]
    ELSE LET attempts == store[phone].attempts + 1
         IN  IF store[phone].otp = provided_otp
             THEN [store |-> Del(store, phone), result |-> "Verified", remaining |-> -1]
             ELSE [store     |-> Put(store, phone, [store[phone] EXCEPT !.attempts = attempts]),
                   result    |-> "InvalidOtp",
                   remaining |-> MaxAttempts - attempts]

\* variant: the exhausted record is not deleted
verify_otp_KeepsExhausted(store, t, phone, provided_otp) ==
    IF ~validate_phone(phone)
    THEN [store |-> store, result |-> "InvalidPhone", remaining |-> -1]
    ELSE IF phone \notin DOMAIN store
    THEN [store |-> store, result |-> "NoOtpFound", remaining |-> -1]
    ELSE IF t > store[phone].expiry
    THEN [store |-> Del(store, phone), result |-> "OtpExpired", remaining |-> -1]
    ELSE IF store[phone].attempts >= MaxAttempts
    THEN [store |-> store, result |-> "AttemptsExceeded", remaining |-> -1]
    ELSE LET attempts == store[phone].attempts + 1
         IN  IF store[phone].otp = provided_otp
             THEN [store |-> Del(store, phone), result |-> "Verified", remaining |-> -1]
             ELSE [store     |-> Put(store, phone, [store[phone] EXCEPT !.attempts = attempts]),
                   result    |-> "InvalidOtp",
                   remaining |-> MaxAttempts - attempts]

\* variant: the attempt limit is checked before the expiry
verify_otp_LimitBeforeExpiry(store, t, phone, provided_otp) ==
    IF ~validate_phone(phone)
    THEN [store |-> store, result |-> "InvalidPhone", remaining |-> -1]
    ELSE IF phone \notin DOMAIN store
    THEN [store |-> store, result |-> "NoOtpFound", remaining |-> -1]
    ELSE IF store[phone].attempts >= MaxAttempts
    THEN [store |-> Del(store, phone), result |-> "AttemptsExceeded", remaining |-> -1]
    ELSE IF t > store[phone].expiry
    THEN [store |-> Del(store, phone), result |-> "OtpExpired", remaining |-> -1]
    ELSE LET attempts == store[phone].attempts + 1
         IN  IF store[phone].otp = provided_otp
             THEN [store |-> Del(store, phone), result |-> "Verified", remaining |-> -1]
             ELSE [store     |-> Put(store, phone, [store[phone] EXCEPT !.attempts = attempts]),
                   result    |-> "InvalidOtp",
                   remaining |-> MaxAttempts - attempts]

\* variant: the attempt limit is compared with > instead of >=
verify_otp_LimitOneLate(store, t, phone, provided_otp) ==
    IF ~validate_phone(phone)
    THEN [store |-> store, result |-> "InvalidPhone", remaining |-> -1]
    ELSE IF phone \notin DOMAIN store
    THEN [store |-> store, result |-> "NoOtpFound", remaining |-> -1]
    ELSE IF t > store[phone].expiry
    THEN [store |-> Del(store, phone), result |-> "OtpExpired", remaining |-> -1]
    ELSE IF store[phone].attempts > MaxAttempts
    THEN [store |-> Del(store, phone), result |-> "AttemptsExceeded", remaining |-> -1]
    ELSE LET attempts == store[phone].attempts + 1
         IN  IF store[phone].otp = provided_otp
             THEN [store |-> Del(store, phone), result |-> "Verified", remaining |-> -1]
             ELSE [store     |-> Put(store, phone, [store[phone] EXCEPT !.attempts = attempts]),
                   result    |-> "InvalidOtp",
                   remaining |-> MaxAttempts - attempts]

\* variant: the incremented attempt count is not written back
verify_otp_LostIncrement(store, t, phone, provided_otp) ==
    IF ~validate_phone(phone)
    THEN [store |-> store, result |-> "InvalidPhone", remaining |-> -1]
    ELSE IF phone \notin DOMAIN store
    THEN [store |-> store, result |-> "NoOtpFound", remaining |-> -1]
    ELSE IF t > store[phone].expiry
    THEN [store |-> Del(store, phone), result |-> "OtpExpired", remaining |-> -1]
    ELSE IF store[phone].attempts >= MaxAttempts
    THEN [store |-> Del(store, phone), result |-> "AttemptsExceeded", remaining |-> -1]
    ELSE LET attempts == store[phone].attempts + 1
         IN  IF store[phone].otp = provided_otp
             THEN [store |-> Del(store, phone), result |-> "Verified", remaining |-> -1]
             ELSE [store     |-> store,
                   result    |-> "InvalidOtp",
                   remaining |-> MaxAttempts - attempts]

verify_otp(store, t, phone, provided_otp) ==
    IF ~validate_phone(phone)
    THEN [store |-> store, result |-> "InvalidPhone", remaining |-> -1]
    ELSE IF phone \notin DOMAIN store
    THEN [store |-> store, result |-> "NoOtpFound", remaining |-> -1]
    ELSE IF t > store[phone].expiry
    THEN [store |-> Del(store, phone), result |-> "OtpExpired", remaining |-> -1]
    ELSE IF store[phone].attempts >= MaxAttempts
    THEN [store |-> Del(store, phone), result |-> "AttemptsExceeded", remaining |-> -1]
    ELSE LET attempts == store[phone].attempts + 1
         IN  IF store[phone].otp = provided_otp
             THEN [store |-> Del(store, phone), result |-> "Verified", remaining |-> -1]
             ELSE [store     |-> Put(store, phone, [store[phone] EXCEPT !.attempts = attempts]),
                   result    |-> "InvalidOtp",
                   remaining |-> MaxAttempts - attempts]

\* variant: asking for the status clears the attempt count
get_otp_status_ResetsAttempts(store, t, phone) ==
    IF phone \notin DOMAIN store
    THEN [store |-> store, exists |-> FALSE, message |-> "NoOtpFound",
          attempts_remaining |-> -1, expires_in_seconds |-> -1]
    ELSE IF t > store[phone].expiry
    THEN [store |-> Del(store, phone), exists |-> FALSE, message |-> "OtpExpired",
          attempts_remaining |-> -1, expires_in_seconds |-> -1]
    ELSE [store |-> Put(store, phone, [store[phone] EXCEPT !.attempts = 0]),
          exists |-> TRUE, message |-> "OtpValid",
          attempts_remaining |-> MaxAttempts - store[phone].attempts,
          expires_in_seconds |-> (store[phone].expiry - t) * 60]

\* variant: the expiry comparison is reversed
get_otp_status_ReversedExpiry(store, t, phone) ==
    IF phone \notin DOMAIN store
    THEN [store |-> store, exists |-> FALSE, message |-> "NoOtpFound",
          attempts_remaining |-> -1, expires_in_seconds |-> -1]
    ELSE IF t <= store[phone].expiry
    THEN [store |-> Del(store, phone), exists |-> FALSE, message |-> "OtpExpired",
          attempts_remaining |-> -1, expires_in_seconds |-> -1]
    ELSE [store |-> store, exists |-> TRUE, message |-> "OtpValid",
          attempts_remaining |-> MaxAttempts - store[phone].attempts,
          expires_in_seconds |-> (store[phone].expiry - t) * 60]

get_otp_status(store, t, phone) ==
    IF phone \notin DOMAIN store
    THEN [store |-> store, exists |-> FALSE, message |-> "NoOtpFound",
          attempts_remaining |-> -1, expires_in_seconds |-> -1]
    ELSE IF t > store[phone].expiry
    THEN [store |-> Del(store, phone), exists |-> FALSE, message |-> "OtpExpired",
          attempts_remaining |-> -1, expires_in_seconds |-> -1]
    ELSE [store |-> store, exists |-> TRUE, message |-> "OtpValid",
          attempts_remaining |-> MaxAttempts - store[phone].attempts,
          expires_in_seconds |-> (store[phone].expiry - t) * 60]

\* variant: a record is swept at the minute of its expiry already
cleanup_expired_otps_AtExpiry(store, t) ==
    LET expired_phones == {phone \in DOMAIN store : t >= store[phone].expiry}
    IN  [store |-> [k \in DOMAIN store \ expired_phones |-> store[k]],
         count |-> Cardinality(expired_phones)]

cleanup_expired_otps(store, t) ==
    LET expired_phones == {phone \in DOMAIN store : t > store[phone].expiry}
    IN  [store |-> [k \in DOMAIN store \ expired_phones |-> store[k]],
         count |-> Cardinality(expired_phones)]

\* send_otp_sms: Twilio when configured, the mock otherwise; both report True
send_otp_sms(phone, otp) == TRUE

(* ---------------- responses ---------------- *)
NoSession == <<"none", 0>>

\* The response of the request handled last, with what the handler saw:
\* pre is the attempt count stored under key before the call (-1: no record),
\* match tells whether the supplied OTP equalled the stored code, run counts
\* the wrong-code verify calls made in a row on a freshly issued record.
NoResponse ==
    [op |-> "init", phone |-> NoStr, otp |-> NoStr, key |-> NoStr,
     status |-> 0, result |-> "None", remaining |-> -1, expires_in |-> -1,
     sent |-> FALSE, code |-> NoStr, pre |-> -1, match |-> FALSE, run |-> 0,
     count |-> 0, session |-> NoSession, is_match |-> FALSE, confidence |-> -1]

PreAttempts(store, key) == IF key \in DOMAIN store THEN store[key].attempts ELSE -1

Live(store, t, key) == key \in DOMAIN store /\ ~(t > store[key].expiry)

\* phrases of routers/otp.py line 133 that the service's message contains
MessagePhrases(result) ==
    CASE result = "InvalidOtp"       -> {"Invalid OTP"}
      [] result = "OtpExpired"       -> {"expired"}
      [] result = "AttemptsExceeded" -> {"exceeded"}
      [] OTHER                       -> {}

\* variant: every failure of the service's verify is a client error
VerifyErrorStatus_AlwaysClient(result) == IF result = "Verified" THEN 200 ELSE 400

VerifyErrorStatus(result) ==
    IF MessagePhrases(result) \cap {"Invalid OTP", "expired", "exceeded"} # {}
    THEN 400 ELSE 500

(* ---------------- routers/otp.py ---------------- *)
\* variant: generate issues a code without asking for the status first
GenerateOtp_NoExistenceCheck(phoneIn) ==
    LET phone       == strip(phoneIn)
        phone_clean == CleanPhone(phone)
        req         == [NoResponse EXCEPT !.op = "generate", !.phone = phoneIn]
    IN  /\ now' = now
        /\ IF ~validate_phone(phone)
           THEN /\ otp_storage' = otp_storage
                /\ last' = [req EXCEPT !.status = 400, !.result = "InvalidPhone"]
           ELSE \E otp \in Codes :
                  LET g == generate_otp(otp_storage, now, phone_clean, otp)
                  IN  /\ otp_storage' = g.store
                      /\ last' = IF g.result = "Created"
                                 THEN [req EXCEPT !.key = phone_clean, !.status = 200,
                                                  !.result = "Created", !.code = g.otp,
                                                  !.pre = PreAttempts(otp_storage, phone_clean),
                                                  !.sent = send_otp_sms(phone_clean, g.otp)]
                                 ELSE [req EXCEPT !.key = phone_clean, !.status = 500,
                                                  !.result = g.result]

GenerateOtp(phoneIn) ==
    LET phone       == strip(phoneIn)
        phone_clean == CleanPhone(phone)
        otp_status  == get_otp_status(otp_storage, now, phone_clean)
        req         == [NoResponse EXCEPT !.op = "generate", !.phone = phoneIn]
    IN  /\ now' = now
        /\ IF ~validate_phone(phone)
           THEN /\ otp_storage' = otp_storage
                /\ last' = [req EXCEPT !.status = 400, !.result = "InvalidPhone"]
           ELSE IF otp_status.exists
           THEN /\ otp_storage' = otp_status.store
                /\ last' = [req EXCEPT !.key = phone_clean, !.status = 200,
                                       !.result = "AlreadySent",
                                       !.pre = PreAttempts(otp_storage, phone_clean),
                                       !.remaining = otp_status.attempts_remaining,
                                       !.expires_in = otp_status.expires_in_seconds]
           ELSE \E otp \in Codes :
                  LET g == generate_otp(otp_status.store, now, phone_clean, otp)
                  IN  /\ otp_storage' = g.store
                      /\ last' = IF g.result = "Created"
                                 THEN [req EXCEPT !.key = phone_clean, !.status = 200,
                                                  !.result = "Created", !.code = g.otp,
                                                  !.pre = PreAttempts(otp_storage, phone_clean),
                                                  !.sent = send_otp_sms(phone_clean, g.otp)]
                                 ELSE [req EXCEPT !.key = phone_clean, !.status = 500,
                                                  !.result = g.result]

VerifyOtp(phoneIn, otpIn) ==
    LET phone       == strip(phoneIn)
        otp         == strip(otpIn)
        phone_clean == CleanPhone(phone)
        v           == verify_otp(otp_storage, now, phone_clean, otp)
        req         == [NoResponse EXCEPT !.op = "verify", !.phone = phoneIn, !.otp = otpIn]
        wrong       == /\ validate_phone(phone_clean)
                       /\ Live(otp_storage, now, phone_clean)
                       /\ otp_storage[phone_clean].otp # otp
        run         == IF ~wrong THEN 0
                       ELSE IF last.op \in {"generate", "resend"} /\ last.result = "Created"
                               /\ last.key = phone_clean
                            THEN 1
                       ELSE IF last.op = "verify" /\ last.key = phone_clean /\ last.run > 0
                            THEN last.run + 1
                       ELSE 0
    IN  /\ now' = now
        /\ IF ~validate_phone(phone)
           THEN /\ otp_storage' = otp_storage
                /\ last' = [req EXCEPT !.status = 400, !.result = "InvalidPhone"]
           ELSE IF ~isdigit(otp) \/ Len(otp) # OtpLength
           THEN /\ otp_storage' = otp_storage
                /\ last' = [req EXCEPT !.status = 400, !.result = "InvalidOtpFormat"]
           ELSE /\ otp_storage' = v.store
                /\ last' = [req EXCEPT
                              !.key = phone_clean,
                              !.status = IF v.result = "Verified" THEN 200
                                         ELSE VerifyErrorStatus(v.result),
                              !.result = v.result,
                              !.remaining = v.remaining,
                              !.pre = PreAttempts(otp_storage, phone_clean),
                              !.match = /\ phone_clean \in DOMAIN otp_storage
                                        /\ otp_storage[phone_clean].otp = otp,
                              !.run = run]

GetOtpStatus(phoneIn) ==
    LET phone_clean == CleanPhone(phoneIn)
        st          == get_otp_status(otp_storage, now, phone_clean)
        req         == [NoResponse EXCEPT !.op = "status", !.phone = phoneIn]
    IN  /\ now' = now
        /\ IF ~validate_phone(phone_clean)
           THEN /\ otp_storage' = otp_storage
                /\ last' = [req EXCEPT !.status = 400, !.result = "InvalidPhone"]
           ELSE /\ otp_storage' = st.store
                /\ last' = [req EXCEPT !.key = phone_clean, !.status = 200,
                                       !.result = st.message,
                                       !.pre = PreAttempts(otp_storage, phone_clean),
                                       !.remaining = st.attempts_remaining,
                                       !.expires_in = st.expires_in_seconds]

\* variant: resend answers like generate while a record of the phone is live
ResendOtp_KeepsLive(phoneIn) ==
    LET phone       == strip(phoneIn)
        phone_clean == CleanPhone(phone)
        cleared     == IF phone_clean \in DOMAIN otp_storage
                       THEN Del(otp_storage, phone_clean) ELSE otp_storage
        req         == [NoResponse EXCEPT !.op = "resend", !.phone = phoneIn]
    IN  /\ now' = now
        /\ IF ~validate_phone(phone_clean)
           THEN /\ otp_storage' = otp_storage
                /\ last' = [req EXCEPT !.status = 400, !.result = "InvalidPhone"]
           ELSE IF Live(otp_storage, now, phone_clean)
           THEN /\ otp_storage' = otp_storage
                /\ last' = [req EXCEPT !.key = phone_clean, !.status = 200,
                                       !.result = "AlreadySent",
                                       !.pre = PreAttempts(otp_storage, phone_clean)]
           ELSE \E otp \in Codes :
                  LET g == generate_otp(cleared, now, phone_clean, otp)
                  IN  /\ otp_storage' = g.store
                      /\ last' = IF g.result = "Created"
                                 THEN [req EXCEPT !.key = phone_clean, !.status = 200,
                                                  !.result = "Created", !.code = g.otp,
                                                  !.pre = PreAttempts(otp_storage, phone_clean),
                                                  !.sent = send_otp_sms(phone_clean, g.otp)]
                                 ELSE [req EXCEPT !.key = phone_clean, !.status = 500,
                                                  !.result = g.result]

ResendOtp(phoneIn) ==
    LET phone       == strip(phoneIn)
        phone_clean == CleanPhone(phone)
        cleared     == IF phone_clean \in DOMAIN otp_storage
                       THEN Del(otp_storage, phone_clean) ELSE otp_storage
        req         == [NoResponse EXCEPT !.op = "resend", !.phone = phoneIn]
    IN  /\ now' = now
        /\ IF ~validate_phone(phone_clean)
           THEN /\ otp_storage' = otp_storage
                /\ last' = [req EXCEPT !.status = 400, !.result = "InvalidPhone"]
           ELSE \E otp \in Codes :
                  LET g == generate_otp(cleared, now, phone_clean, otp)
                  IN  /\ otp_storage' = g.store
                      /\ last' = IF g.result = "Created"
                                 THEN [req EXCEPT !.key = phone_clean, !.status = 200,
                                                  !.result = "Created", !.code = g.otp,
                                                  !.pre = PreAttempts(otp_storage, phone_clean),
                                                  !.sent = send_otp_sms(phone_clean, g.otp)]
                                 ELSE [req EXCEPT !.key = phone_clean, !.status = 500,
                                                  !.result = g.result]

CleanupExpiredOtps ==
    LET c == cleanup_expired_otps(otp_storage, now)
    IN  /\ now' = now
        /\ otp_storage' = c.store
        /\ last' = [NoResponse EXCEPT !.op = "sweep", !.status = 200,
                                      !.result = "Cleaned", !.count = c.count]

\* datetime.now() advances between requests
Tick ==
    /\ now + TickMinutes <= MaxTime
    /\ now' = now + TickMinutes
    /\ otp_storage' = otp_storage
    /\ last' = [NoResponse EXCEPT !.op = "tick"]

(* ---------------- services/face_service.py (the mock the face router uses) *)
ImgGood   == [bytes |-> 2048, decodable |-> TRUE,  width |-> 200, height |-> 200]
ImgSmall  == [bytes |-> 512,  decodable |-> TRUE,  width |-> 50,  height |-> 50]
ImgBroken == [bytes |-> 64,   decodable |-> FALSE, width |-> 0,   height |-> 0]
ImgEmpty  == [bytes |-> 0,    decodable |-> FALSE, width |-> 0,   height |-> 0]

Images == {ImgGood, ImgSmall, ImgBroken, ImgEmpty}

ContentTypes == {<<"image", "jpeg">>, <<"text", "plain">>}

MaxFileBytes == 10 * 1024 * 1024

\* face distances random.uniform(0.2, 0.8) can return, in tenths
Distances == {2, 5, 8}

\* confidence_threshold form values, in tenths
Thresholds == {0, 6, 11}

validate_face_quality(image) ==
    IF ~image.decodable THEN [raised |-> TRUE, is_valid |-> FALSE]
    ELSE [raised |-> FALSE, is_valid |-> ~(image.width < 100 \/ image.height < 100)]

\* distance is the value drawn by random.uniform; tolerance in tenths
face_compare_faces(aadhaar_image, live_image, tolerance, distance) ==
    IF ~aadhaar_image.decodable \/ ~live_image.decodable
    THEN [raised |-> TRUE, is_match |-> FALSE, confidence |-> -1]
    ELSE [raised     |-> FALSE,
          is_match   |-> distance <= tolerance,
          confidence |-> IF (10 - distance) * 10 > 0 THEN (10 - distance) * 10 ELSE 0]

(* ---------------- routers/face.py ---------------- *)
SessionIds == {<<t, n>> : t \in {"aadhaar", "live"}, n \in 0..(MaxSessions - 1)}

Upload(kind, content_type, image) ==
    LET req        == [NoResponse EXCEPT !.op = "upload_" \o kind]
        validation == validate_face_quality(image)
        session_id == <<kind, Cardinality(DOMAIN uploaded_images)>>
    IN  /\ Cardinality(DOMAIN uploaded_images) < MaxSessions
        /\ UNCHANGED <<otp_storage, now, face_matched>>
        /\ IF content_type[1] # "image"
           THEN /\ uploaded_images' = uploaded_images
                /\ last' = [req EXCEPT !.status = 400, !.result = "InvalidFileType"]
           ELSE IF image.bytes > MaxFileBytes
           THEN /\ uploaded_images' = uploaded_images
                /\ last' = [req EXCEPT !.status = 400, !.result = "FileTooLarge"]
           ELSE IF image.bytes = 0
           THEN /\ uploaded_images' = uploaded_images
                /\ last' = [req EXCEPT !.status = 400, !.result = "EmptyFile"]
           ELSE IF validation.raised
           THEN /\ uploaded_images' = uploaded_images
                /\ last' = [req EXCEPT !.status = 500, !.result = "ProcessingError"]
           ELSE IF ~validation.is_valid
           THEN /\ uploaded_images' = uploaded_images
                /\ last' = [req EXCEPT !.status = 400, !.result = "FaceValidationFailed"]
           ELSE /\ uploaded_images' =
                      [k \in DOMAIN uploaded_images \cup {session_id} |->
                          IF k = session_id THEN [type |-> kind, image_data |-> image]
                          ELSE uploaded_images[k]]
                /\ last' = [req EXCEPT !.status = 200, !.result = "Uploaded",
                                       !.session = session_id]

UploadAadhaarFace(content_type, image) == Upload("aadhaar", content_type, image)

UploadLivePhoto(content_type, image) == Upload("live", content_type, image)

CompareFaces(aadhaar_session_id, live_session_id, confidence_threshold) ==
    LET req == [NoResponse EXCEPT !.op = "compare", !.session = aadhaar_session_id]
    IN  /\ UNCHANGED <<otp_storage, now>>
        /\ IF aadhaar_session_id \notin DOMAIN uploaded_images
           THEN /\ UNCHANGED <<uploaded_images, face_matched>>
                /\ last' = [req EXCEPT !.status = 404, !.result = "AadhaarNotFound"]
           ELSE IF live_session_id \notin DOMAIN uploaded_images
           THEN /\ UNCHANGED <<uploaded_images, face_matched>>
                /\ last' = [req EXCEPT !.status = 404, !.result = "LiveNotFound"]
           ELSE IF uploaded_images[aadhaar_session_id].type # "aadhaar"
           THEN /\ UNCHANGED <<uploaded_images, face_matched>>
                /\ last' = [req EXCEPT !.status = 400, !.result = "InvalidAadhaarSession"]
           ELSE IF uploaded_images[live_session_id].type # "live"
           THEN /\ UNCHANGED <<uploaded_images, face_matched>>
                /\ last' = [req EXCEPT !.status = 400, !.result = "InvalidLiveSession"]
           ELSE IF confidence_threshold < 0 \/ confidence_threshold > 10
           THEN /\ UNCHANGED <<uploaded_images, face_matched>>
                /\ last' = [req EXCEPT !.status = 400, !.result = "InvalidThreshold"]
           ELSE \E distance \in Distances :
                  LET c == face_compare_faces(uploaded_images[aadhaar_session_id].image_data,
                                              uploaded_images[live_session_id].image_data,
                                              10 - confidence_threshold, distance)
                  IN  IF c.raised
                      THEN /\ UNCHANGED <<uploaded_images, face_matched>>
                           /\ last' = [req EXCEPT !.status = 500, !.result = "CompareError"]
                      ELSE /\ uploaded_images' =
                                 [k \in DOMAIN uploaded_images
                                         \ {aadhaar_session_id, live_session_id} |->
                                     uploaded_images[k]]
                           /\ face_matched' = (face_matched \/ c.is_match)
                           /\ last' = [req EXCEPT !.status = 200, !.result = "Compared",
                                                  !.is_match = c.is_match,
                                                  !.confidence = c.confidence]

ClearSession(session_id) ==
    LET req == [NoResponse EXCEPT !.op = "clear", !.session = session_id]
    IN  /\ UNCHANGED <<otp_storage, now, face_matched>>
        /\ IF session_id \in DOMAIN uploaded_images
           THEN /\ uploaded_images' =
                      [k \in DOMAIN uploaded_images \ {session_id} |-> uploaded_images[k]]
                /\ last' = [req EXCEPT !.status = 200, !.result = "Cleared"]
           ELSE /\ uploaded_images' = uploaded_images
                /\ last' = [req EXCEPT !.status = 404, !.result = "SessionNotFound"]

(* ---------------- concurrent requests ---------------- *)
\* The handlers are coroutines without an await in their bodies: the event
\* loop runs one received request at a time, each to completion, in any order.
NoRequest == [op |-> "none", phone |-> NoStr, otp |-> NoStr, rival |-> FALSE]

ConcPhones == {Phone9876543210}

Requests ==
    {[op |-> "generate", phone |-> p, otp |-> NoStr, rival |-> FALSE] : p \in ConcPhones}
    \cup {[op |-> "verify", phone |-> p, otp |-> c, rival |-> FALSE] :
             p \in ConcPhones, c \in Codes}

Rivals(r1, r2) == r1.op = r2.op /\ r1.phone = r2.phone

\* a request arrives while others may be waiting
Submit(slot, req) ==
    /\ pending[slot] = NoRequest
    /\ pending' = [s \in DOMAIN pending |->
                     IF s = slot
                     THEN [req EXCEPT !.rival = \E o \in DOMAIN pending : Rivals(pending[o], req)]
                     ELSE IF Rivals(pending[s], req)
                          THEN [pending[s] EXCEPT !.rival = TRUE]
                          ELSE pending[s]]
    /\ UNCHANGED <<otp_storage, now, last, uploaded_images, face_matched, overlap, tally>>

NoTally == [compared |-> 0, verified |-> 0]

\* what the request just run adds to the count of its phone
Count ==
    IF last'.op \in {"generate", "resend"} /\ last'.result = "Created"
    THEN tally' = [k \in DOMAIN tally \cup {last'.key} |->
                      IF k = last'.key THEN NoTally ELSE tally[k]]
    ELSE IF last'.op = "verify" /\ last'.result \in {"Verified", "InvalidOtp"}
    THEN tally' = [k \in DOMAIN tally \cup {last'.key} |->
                      IF k = last'.key
                      THEN LET old == IF k \in DOMAIN tally THEN tally[k] ELSE NoTally
                           IN  [compared |-> old.compared + 1,
                                verified |-> old.verified
                                             + IF last'.result = "Verified" THEN 1 ELSE 0]
                      ELSE tally[k]]
    ELSE tally' = tally

\* the event loop runs one waiting request to completion
Dispatch(slot) ==
    /\ pending[slot] # NoRequest
    /\ \/ pending[slot].op = "generate" /\ GenerateOtp(pending[slot].phone)
       \/ pending[slot].op = "verify" /\ VerifyOtp(pending[slot].phone, pending[slot].otp)
    /\ Count
    /\ pending' = [pending EXCEPT ![slot] = NoRequest]
    /\ overlap' = pending[slot].rival
    /\ UNCHANGED faceVars

(* ---------------- services/yolo_face_service.py ---------------- *)
\* An image is described by what OpenCV finds in it: whether cv2.imdecode
\* reads it, whether its text is valid base64, and the faces the Haar cascade
\* detects, each with its bounding box and the ORB descriptors of its region
\* (has_desc FALSE: detectAndCompute returns None).  A descriptor is a number
\* and the distance of two descriptors is their absolute difference.
Face(w, h, has_desc, desc) == [w |-> w, h |-> h, has_desc |-> has_desc, desc |-> desc]

Picture(faces) == [base64_ok |-> TRUE, decodable |-> TRUE, faces |-> faces]

DescSpread == <<0, 10, 20, 30, 40, 50, 60>>
DescNear7  == <<0, 15, 25, 35, 45, 55, 15>>
DescNear6  == <<0, 15, 25, 35, 45, 55>>
DescWide5  == <<0, 1000, 2000, 3000, 4000>>
DescSame5  == <<5, 5, 5, 5, 5>>
DescFar6   == <<100, 101, 102, 103, 104, 105>>
DescFour   == <<0, 10, 20, 30>>

PicBadBase64  == [base64_ok |-> FALSE, decodable |-> FALSE, faces |-> <<>>]
PicBroken     == [base64_ok |-> TRUE, decodable |-> FALSE, faces |-> <<>>]
PicNoFace     == Picture(<<>>)
PicSpread     == Picture(<<Face(60, 60, TRUE, DescSpread)>>)
PicNear7      == Picture(<<Face(60, 60, TRUE, DescNear7)>>)
PicNear6      == Picture(<<Face(60, 60, TRUE, DescNear6)>>)
PicWide5      == Picture(<<Face(60, 60, TRUE, DescWide5)>>)
PicSame5      == Picture(<<Face(60, 60, TRUE, DescSame5)>>)
PicFar6       == Picture(<<Face(60, 60, TRUE, DescFar6)>>)
PicFour       == Picture(<<Face(60, 60, TRUE, DescFour)>>)
PicFlat       == Picture(<<Face(60, 60, FALSE, <<>>)>>)
PicTiny       == Picture(<<Face(25, 25, TRUE, DescSpread)>>)
PicTwoFaces   == Picture(<<Face(30, 30, TRUE, DescFar6), Face(60, 60, TRUE, DescSpread)>>)

Pictures ==
    {PicBadBase64, PicBroken, PicNoFace, PicSpread, PicNear7, PicNear6, PicWide5,
     PicSame5, PicFar6, PicFour, PicFlat, PicTiny, PicTwoFaces}

MinFeatures     == 5
RatioTenths     == 7
match_threshold == 15
MinFaceArea     == 1000

detect_faces_opencv(image) == IF ~image.decodable THEN <<>> ELSE image.faces

Area(f) == f.w * f.h

\* max(faces, key=area): the first face of the largest area
LargestFace(faces) ==
    faces[CHOOSE i \in 1..Len(faces) :
              \A j \in 1..Len(faces) :
                  /\ Area(faces[j]) <= Area(faces[i])
                  /\ Area(faces[j]) = Area(faces[i]) => i <= j]

Dist(x, y) == IF x >= y THEN x - y ELSE y - x

Smallest(S) == CHOOSE m \in S : \A n \in S : m <= n

Smaller(a, b) == IF a <= b THEN a ELSE b

\* knnMatch(query, train, k=2): per query descriptor the distances to its two
\* nearest train descriptors, nearest first
knnMatch(query, train) ==
    [q \in 1..Len(query) |->
        LET J     == 1..Len(train)
            d(j)  == Dist(query[q], train[j])
        IN  IF J = {} THEN <<>>
            ELSE LET j1 == CHOOSE j \in J : \A i \in J : d(j) <= d(i)
                 IN  IF J = {j1} THEN <<d(j1)>>
                     ELSE <<d(j1), Smallest({d(i) : i \in J \ {j1}})>>]

\* Lowe's ratio test: m.distance < 0.7 * n.distance
RatioTest(match_pair) ==
    /\ Len(match_pair) = 2
    /\ 10 * match_pair[1] < RatioTenths * match_pair[2]

NoConfidence == <<0, 1>>

\* a confidence is a fraction <<numerator, denominator>> of percent
AtLeast(confidence, percent) == confidence[1] >= percent * confidence[2]

\* variant: an error result that still reports a match with full confidence
YoloError_Matched(error, flann_run, bf_run) ==
    [success |-> FALSE, error |-> error, match |-> TRUE, confidence |-> <<100, 1>>,
     good_matches |-> -1, total_features |-> -1,
     flann_run |-> flann_run, bf_run |-> bf_run]

YoloError(error, flann_run, bf_run) ==
    [success |-> FALSE, error |-> error, match |-> FALSE, confidence |-> NoConfidence,
     good_matches |-> -1, total_features |-> -1,
     flann_run |-> flann_run, bf_run |-> bf_run]

\* variant: the ratio is taken over the larger descriptor set
match_features_OverLarger(aadhaar_desc, live_desc, flann_ok, bf_ok) ==
    IF ~flann_ok /\ ~bf_ok
    THEN YoloError("Feature matching failed", TRUE, TRUE)
    ELSE LET matches  == knnMatch(aadhaar_desc, live_desc)
             good     == SelectSeq(matches, RatioTest)
             total    == IF Len(aadhaar_desc) >= Len(live_desc)
                         THEN Len(aadhaar_desc) ELSE Len(live_desc)
             den      == IF total >= 1 THEN total ELSE 1
             confidence == <<Smaller(100 * Len(good), 100 * den), den>>
         IN  [success |-> TRUE, error |-> "",
              match |-> AtLeast(confidence, match_threshold),
              confidence |-> confidence,
              good_matches |-> Len(good), total_features |-> total,
              flann_run |-> TRUE, bf_run |-> ~flann_ok]

\* variant: a failure of the FLANN matcher is reported without a second matcher
match_features_NoFallback(aadhaar_desc, live_desc, flann_ok, bf_ok) ==
    IF ~flann_ok
    THEN YoloError("Feature matching failed", TRUE, FALSE)
    ELSE LET matches  == knnMatch(aadhaar_desc, live_desc)
             good     == SelectSeq(matches, RatioTest)
             total    == Smaller(Len(aadhaar_desc), Len(live_desc))
             den      == IF total >= 1 THEN total ELSE 1
             confidence == <<Smaller(100 * Len(good), 100 * den), den>>
         IN  [success |-> TRUE, error |-> "",
              match |-> AtLeast(confidence, match_threshold),
              confidence |-> confidence,
              good_matches |-> Len(good), total_features |-> total,
              flann_run |-> TRUE, bf_run |-> FALSE]

\* compare_faces_yolo from the matcher on (lines 194-259); flann_ok and bf_ok
\* say whether the FLANN matcher and the brute-force matcher return or raise
match_features(aadhaar_desc, live_desc, flann_ok, bf_ok) ==
    IF ~flann_ok /\ ~bf_ok
    THEN YoloError("Feature matching failed", TRUE, TRUE)
    ELSE LET matches  == knnMatch(aadhaar_desc, live_desc)
             good     == SelectSeq(matches, RatioTest)
             total    == Smaller(Len(aadhaar_desc), Len(live_desc))
             den      == IF total >= 1 THEN total ELSE 1
             confidence == <<Smaller(100 * Len(good), 100 * den), den>>
         IN  IF matches = <<>>
             THEN [success |-> TRUE, error |-> "", match |-> FALSE,
                   confidence |-> NoConfidence,
                   good_matches |-> 0, total_features |-> total,
                   flann_run |-> TRUE, bf_run |-> ~flann_ok]
             ELSE [success |-> TRUE, error |-> "",
                   match |-> AtLeast(confidence, match_threshold),
                   confidence |-> confidence,
                   good_matches |-> Len(good), total_features |-> total,
                   flann_run |-> TRUE, bf_run |-> ~flann_ok]

\* variant: descriptor sets of fewer than MinFeatures go on to the matcher
compare_faces_yolo_NoFeatureFloor(aadhaar_image, live_image, flann_ok, bf_ok) ==
    LET aadhaar_faces == detect_faces_opencv(aadhaar_image)
        live_faces    == detect_faces_opencv(live_image)
    IN  IF aadhaar_faces = <<>>
        THEN YoloError("Could not detect face in Aadhaar photo", FALSE, FALSE)
        ELSE IF live_faces = <<>>
        THEN YoloError("Could not detect face in live photo", FALSE, FALSE)
        ELSE LET aadhaar_face == LargestFace(aadhaar_faces)
                 live_face    == LargestFace(live_faces)
             IN  IF ~aadhaar_face.has_desc \/ ~live_face.has_desc
                 THEN YoloError("Could not extract sufficient features from faces", FALSE, FALSE)
                 ELSE match_features(aadhaar_face.desc, live_face.desc, flann_ok, bf_ok)

\* variant: the live image is checked for a face before the Aadhaar image
compare_faces_yolo_LiveFirst(aadhaar_image, live_image, flann_ok, bf_ok) ==
    LET aadhaar_faces == detect_faces_opencv(aadhaar_image)
        live_faces    == detect_faces_opencv(live_image)
    IN  IF live_faces = <<>>
        THEN YoloError("Could not detect face in live photo", FALSE, FALSE)
        ELSE IF aadhaar_faces = <<>>
        THEN YoloError("Could not detect face in Aadhaar photo", FALSE, FALSE)
        ELSE LET aadhaar_face == LargestFace(aadhaar_faces)
                 live_face    == LargestFace(live_faces)
             IN  IF ~aadhaar_face.has_desc \/ ~live_face.has_desc
                 THEN YoloError("Could not extract sufficient features from faces", FALSE, FALSE)
                 ELSE IF Len(aadhaar_face.desc) < MinFeatures \/ Len(live_face.desc) < MinFeatures
                 THEN YoloError("Insufficient features detected in faces for comparison",
                                FALSE, FALSE)
                 ELSE match_features(aadhaar_face.desc, live_face.desc, flann_ok, bf_ok)

\* YOLOFaceService.compare_faces_yolo
compare_faces_yolo(aadhaar_image, live_image, flann_ok, bf_ok) ==
    LET aadhaar_faces == detect_faces_opencv(aadhaar_image)
        live_faces    == detect_faces_opencv(live_image)
    IN  IF aadhaar_faces = <<>>
        THEN YoloError("Could not detect face in Aadhaar photo", FALSE, FALSE)
        ELSE IF live_faces = <<>>
        THEN YoloError("Could not detect face in live photo", FALSE, FALSE)
        ELSE LET aadhaar_face == LargestFace(aadhaar_faces)
                 live_face    == LargestFace(live_faces)
             IN  IF ~aadhaar_face.has_desc \/ ~live_face.has_desc
                 THEN YoloError("Could not extract sufficient features from faces", FALSE, FALSE)
                 ELSE IF Len(aadhaar_face.desc) < MinFeatures \/ Len(live_face.desc) < MinFeatures
                 THEN YoloError("Insufficient features detected in faces for comparison",
                                FALSE, FALSE)
                 ELSE match_features(aadhaar_face.desc, live_face.desc, flann_ok, bf_ok)

\* YOLOFaceService.validate_face_quality
yolo_validate_face_quality(image) ==
    LET faces == detect_faces_opencv(image)
    IN  IF faces = <<>>
        THEN [is_valid |-> FALSE, reason |-> "No face detected in image", face_count |-> -1]
        ELSE IF Area(LargestFace(faces)) < MinFaceArea
        THEN [is_valid |-> FALSE, reason |-> "Face too small or unclear", face_count |-> -1]
        ELSE [is_valid |-> TRUE, reason |-> "Face detected and quality validated",
              face_count |-> Len(faces)]

NoCall == [op |-> "none"]

CompareFacesYolo(aadhaar_image, live_image, flann_ok, bf_ok) ==
    /\ face_call' = [op       |-> "compare_faces_yolo",
                     aadhaar  |-> aadhaar_image,
                     live     |-> live_image,
                     flann_ok |-> flann_ok,
                     bf_ok    |-> bf_ok,
                     result   |-> compare_faces_yolo(aadhaar_image, live_image,
                                                     flann_ok, bf_ok)]
    /\ UNCHANGED <<otpVars, faceVars, concVars>>

ValidateFaceQualityYolo(image) ==
    /\ face_call' = [op     |-> "yolo_validate_face_quality",
                     image  |-> image,
                     result |-> yolo_validate_face_quality(image)]
    /\ UNCHANGED <<otpVars, faceVars, concVars>>

(* ---------------- services/face_recognition_service.py ---------------- *)
\* what one DeepFace.verify call does: it raises, or it returns a distance and
\* the model's threshold (both in hundredths) with verified = distance <= threshold
VerifyRaised == [raised |-> TRUE, verified |-> FALSE, distance |-> 0, threshold |-> 0]

Verdict(distance, threshold) ==
    [raised |-> FALSE, verified |-> (distance <= threshold),
     distance |-> distance, threshold |-> threshold]

Verdicts == {Verdict(10, 40), Verdict(30, 40), Verdict(50, 40)}

HasFace(image) == image.decodable /\ image.faces # <<>>

\* enforce_detection=True: verify raises unless a face is found in both files
VerifyOutcomes(ref, live) ==
    IF HasFace(ref) /\ HasFace(live) THEN {VerifyRaised} \cup Verdicts ELSE {VerifyRaised}

\* HighAccuracyFaceService._error_result
_error_result(message, error_type) ==
    [match |-> FALSE, confidence |-> NoConfidence, message |-> message,
     error_type |-> error_type, detection_method |-> ""]

\* the face checks shared by _compare_with_opencv and _compare_with_opencv_files
OpenCvVerdict(ref, live, decode_message, confidence, detection_method) ==
    IF ~ref.decodable \/ ~live.decodable
    THEN _error_result(decode_message, "DECODE_ERROR")
    ELSE IF Len(ref.faces) = 0
    THEN _error_result("No face detected in Aadhaar image", "NO_FACE_REFERENCE")
    ELSE IF Len(ref.faces) > 1
    THEN _error_result("Multiple faces detected in Aadhaar image", "MULTIPLE_FACES_REFERENCE")
    ELSE IF Len(live.faces) = 0
    THEN _error_result("No face detected in captured image", "NO_FACE_LIVE")
    ELSE IF Len(live.faces) > 1
    THEN _error_result("Multiple faces detected in captured image", "MULTIPLE_FACES_LIVE")
    ELSE [match |-> TRUE, confidence |-> confidence,
          message |-> "Face comparison completed", error_type |-> "None",
          detection_method |-> detection_method]

_compare_with_opencv(ref, live) ==
    OpenCvVerdict(ref, live, "Failed to decode images", <<60, 1>>, "OpenCV-Basic")

_compare_with_opencv_files(ref, live) ==
    OpenCvVerdict(ref, live, "Failed to load image files", <<55, 1>>, "OpenCV-Fallback")

\* round(min(100, max(0, (1 - distance / threshold) * 100)), 1), in tenths
DeepFaceConfidence(distance, threshold) ==
    IF threshold > 0 /\ distance < threshold
    THEN <<Smaller(1000, ((threshold - distance) * 2000 + threshold) \div (2 * threshold)), 10>>
    ELSE NoConfidence

\* no call inside the outer try raises past the two inner handlers, so the
\* outer except of lines 99-110 is not entered
_compare_with_deepface(ref, live, facenet, openface) ==
    IF ~ref.base64_ok \/ ~live.base64_ok
    THEN _error_result("Failed to decode images", "DECODE_ERROR")
    ELSE IF facenet.raised /\ openface.raised
    THEN _compare_with_opencv_files(ref, live)
    ELSE LET result == IF facenet.raised THEN openface ELSE facenet
         IN  [match |-> result.verified,
              confidence |-> DeepFaceConfidence(result.distance, result.threshold),
              message |-> IF result.verified THEN "Face match detected"
                          ELSE "Face mismatch detected",
              error_type |-> "None",
              detection_method |-> "DeepFace-VGG"]

\* HighAccuracyFaceService.compare_faces
compare_faces(ref, live, deepface_available, facenet, openface) ==
    IF deepface_available
    THEN _compare_with_deepface(ref, live, facenet, openface)
    ELSE _compare_with_opencv(ref, live)

\* DeepFace.extract_faces(enforce_detection=False): -1 when it raises, else
\* the number of faces returned; without a detected face the library hands
\* back the whole picture as one face, or nothing
ExtractOutcomes(image) ==
    IF ~image.decodable THEN {-1}
    ELSE IF image.faces = <<>> THEN {0, 1}
    ELSE {Len(image.faces)}

\* the face count checks shared by _validate_with_deepface and _validate_with_opencv
CountVerdict(face_count, reason, detection_method) ==
    IF face_count = 0
    THEN [is_valid |-> FALSE, reason |-> "No face detected", error_type |-> "no_face"]
    ELSE IF face_count > 1
    THEN [is_valid |-> FALSE, reason |-> "Multiple faces detected",
          error_type |-> "multiple_faces"]
    ELSE [is_valid |-> TRUE, reason |-> reason, error_type |-> "None"]

_validate_with_deepface(image, extracted) ==
    IF extracted < 0
    THEN [is_valid |-> FALSE, reason |-> "Validation failed",
          error_type |-> "validation_error"]
    ELSE CountVerdict(extracted, "High quality face detected", "DeepFace")

_validate_with_opencv(image) ==
    IF ~image.decodable
    THEN [is_valid |-> FALSE, reason |-> "Failed to decode image",
          error_type |-> "decode_error"]
    ELSE CountVerdict(Len(image.faces), "Face detected", "OpenCV")

\* HighAccuracyFaceService.validate_face_quality
validate_face_quality_high(image, deepface_available, extracted) ==
    IF deepface_available
    THEN _validate_with_deepface(image, extracted)
    ELSE _validate_with_opencv(image)

ServicePictures == {PicBadBase64, PicBroken, PicNoFace, PicSpread, PicFar6, PicTwoFaces}

CompareFacesHighAccuracy(ref, live, deepface_available, facenet, openface) ==
    /\ face_call' = [op      |-> "compare_faces",
                     aadhaar |-> ref,
                     live    |-> live,
                     deepface_available |-> deepface_available,
                     result  |-> compare_faces(ref, live, deepface_available,
                                               facenet, openface)]
    /\ UNCHANGED <<otpVars, faceVars, concVars>>

ValidateFaceQualityHighAccuracy(image, deepface_available, extracted) ==
    /\ image.base64_ok
    /\ face_call' = [op     |-> "validate_face_quality",
                     image  |-> image,
                     deepface_available |-> deepface_available,
                     result |-> validate_face_quality_high(image, deepface_available,
                                                           extracted)]
    /\ UNCHANGED <<otpVars, faceVars, concVars>>

(* ---------------- specifications ---------------- *)
Init ==
    /\ otp_storage = <<>>
    /\ now = 0
    /\ last = NoResponse
    /\ uploaded_images = <<>>
    /\ face_matched = FALSE
    /\ pending = [s \in 1..MaxPending |-> NoRequest]
    /\ overlap = FALSE
    /\ tally = <<>>
    /\ face_call = NoCall

\* the OTP endpoints, one request at a time
Next ==
    \/ \E phoneIn \in PhoneInputs : GenerateOtp(phoneIn) /\ UNCHANGED <<faceVars, concVars, svcVars>>
    \/ \E phoneIn \in PhoneInputs, otpIn \in OtpInputs :
          VerifyOtp(phoneIn, otpIn) /\ UNCHANGED <<faceVars, concVars, svcVars>>
    \/ \E phoneIn \in PhoneInputs : GetOtpStatus(phoneIn) /\ UNCHANGED <<faceVars, concVars, svcVars>>
    \/ \E phoneIn \in PhoneInputs : ResendOtp(phoneIn) /\ UNCHANGED <<faceVars, concVars, svcVars>>
    \/ CleanupExpiredOtps /\ UNCHANGED <<faceVars, concVars, svcVars>>
    \/ Tick /\ UNCHANGED <<faceVars, concVars, svcVars>>

Spec == Init /\ [][Next]_vars

\* the product flow: face upload and comparison, then the OTP for one phone
FlowPhones == {Phone9876543210}

NextFlow ==
    \/ \E ct \in ContentTypes, image \in Images :
          UploadAadhaarFace(ct, image) /\ UNCHANGED <<concVars, svcVars>>
    \/ \E ct \in ContentTypes, image \in Images :
          UploadLivePhoto(ct, image) /\ UNCHANGED <<concVars, svcVars>>
    \/ \E a \in SessionIds, l \in SessionIds, th \in Thresholds :
          CompareFaces(a, l, th) /\ UNCHANGED <<concVars, svcVars>>
    \/ \E id \in SessionIds : ClearSession(id) /\ UNCHANGED <<concVars, svcVars>>
    \/ \E phoneIn \in FlowPhones : GenerateOtp(phoneIn) /\ UNCHANGED <<faceVars, concVars, svcVars>>
    \/ \E phoneIn \in FlowPhones, otpIn \in Codes :
          VerifyOtp(phoneIn, otpIn) /\ UNCHANGED <<faceVars, concVars, svcVars>>
    \/ \E phoneIn \in FlowPhones : ResendOtp(phoneIn) /\ UNCHANGED <<faceVars, concVars, svcVars>>

SpecFlow == Init /\ [][NextFlow]_vars

\* concurrent generate-otp and verify-otp requests for one phone
NextConc ==
    \/ \E slot \in 1..MaxPending, req \in Requests : Submit(slot, req) /\ UNCHANGED svcVars
    \/ \E slot \in 1..MaxPending : Dispatch(slot) /\ UNCHANGED svcVars
    \/ Tick /\ UNCHANGED <<faceVars, concVars, svcVars>>

SpecConc == Init /\ [][NextConc]_vars

\* every OTP endpoint for two phones, one request at a time, with the count of
\* the comparisons made per issued record
CountPhones == {Phone9876543210, PhoneParens}

NextCount ==
    \/ \E phoneIn \in CountPhones :
          GenerateOtp(phoneIn) /\ Count /\ UNCHANGED <<pending, overlap, faceVars, svcVars>>
    \/ \E phoneIn \in CountPhones, otpIn \in Codes :
          VerifyOtp(phoneIn, otpIn) /\ Count
          /\ UNCHANGED <<pending, overlap, faceVars, svcVars>>
    \/ \E phoneIn \in CountPhones :
          GetOtpStatus(phoneIn) /\ Count /\ UNCHANGED <<pending, overlap, faceVars, svcVars>>
    \/ \E phoneIn \in CountPhones :
          ResendOtp(phoneIn) /\ Count /\ UNCHANGED <<pending, overlap, faceVars, svcVars>>
    \/ CleanupExpiredOtps /\ Count /\ UNCHANGED <<pending, overlap, faceVars, svcVars>>
    \/ Tick /\ Count /\ UNCHANGED <<pending, overlap, faceVars, svcVars>>

SpecCount == Init /\ [][NextCount]_vars

\* the face services called directly, each call with inputs of its own
NextFace ==
    \/ \E a \in Pictures, l \in Pictures, flann_ok \in BOOLEAN, bf_ok \in BOOLEAN :
          CompareFacesYolo(a, l, flann_ok, bf_ok)
    \/ \E image \in Pictures : ValidateFaceQualityYolo(image)
    \/ \E ref \in ServicePictures, live \in ServicePictures, deepface_available \in BOOLEAN :
          \E facenet \in VerifyOutcomes(ref, live), openface \in VerifyOutcomes(ref, live) :
              CompareFacesHighAccuracy(ref, live, deepface_available, facenet, openface)
    \/ \E image \in ServicePictures, deepface_available \in BOOLEAN :
          \E extracted \in ExtractOutcomes(image) :
              ValidateFaceQualityHighAccuracy(image, deepface_available, extracted)

SpecFace == Init /\ [][NextFace]_vars

TypeOK ==
    /\ now \in 0..MaxTime
    /\ \A k \in DOMAIN otp_storage :
          /\ otp_storage[k].otp \in Codes
          /\ otp_storage[k].attempts \in 0..MaxAttempts
          /\ otp_storage[k].expiry \in 0..(MaxTime + otp_expiry_minutes)

(* ---------------- properties of the OTP lifecycle ---------------- *)
\* the supplied phone, digits only, is a 10-digit number starting with 6..9
TenDigitMobile(phone) ==
    LET d == DigitsOnly(phone)
    IN  Len(d) = 10 /\ d[1] \in {"6", "7", "8", "9"}

\* C1: generate followed at once by verify with the issued code succeeds and
\* deletes the record; a second verify with the same code fails with
\* NoOtpFound and changes nothing.
C1_GenerateVerifyOnce ==
    [][ /\ ( /\ last.op = "generate" /\ last.result = "Created"
             /\ last'.op = "verify" /\ last'.key = last.key
             /\ strip(last'.otp) = last.code )
           => /\ last'.result = "Verified"
              /\ last'.status = 200
              /\ last.key \notin DOMAIN otp_storage'
        /\ ( /\ last.op = "verify" /\ last.result = "Verified"
             /\ last'.op = "verify" /\ last'.key = last.key
             /\ last'.otp = last.otp )
           => /\ last'.result = "NoOtpFound"
              /\ otp_storage' = otp_storage
      ]_vars

C1_Witness ==
    /\ last.op = "verify" /\ last.result = "Verified" /\ last.pre = 0
    /\ last.key = Phone9876543210
    /\ last.key \notin DOMAIN otp_storage

\* C2 as stated: the third wrong-code verify in a row on a fresh record is
\* classified AttemptsExceeded.
C2_ThirdWrongIsExceeded ==
    (last.op = "verify" /\ last.run = 3) => last.result = "AttemptsExceeded"

\* C2 amended: the third wrong-code verify in a row on a fresh record fails
\* with InvalidOtp and 0 attempts remaining; the fourth one is the call
\* classified AttemptsExceeded.
C2_ThirdWrongIsInvalidOtp ==
    /\ (last.op = "verify" /\ last.run \in 1..3)
          => (last.result = "InvalidOtp" /\ last.remaining = MaxAttempts - last.run)
    /\ (last.op = "verify" /\ last.run = 4) => last.result = "AttemptsExceeded"

C2_Witness == last.op = "verify" /\ last.run = 3 /\ last.remaining = 0

\* C3 as stated: once a verify call has returned, no stored record has
\* attempt_count equal to the maximum.
C3_NoExhaustedRecordAfterVerify ==
    last.op = "verify" => \A k \in DOMAIN otp_storage : otp_storage[k].attempts # MaxAttempts

\* C3 amended: the wrong-code verify that raises attempt_count to 3 leaves the
\* record stored; the next verify on that non-expired record removes it, so the
\* record is absent after four wrong-code verify calls in a row.
C3_ExhaustedRemovedByNextVerify ==
    [][ last'.op = "verify" /\ last'.key # NoStr =>
          /\ ( /\ Live(otp_storage, now, last'.key)
               /\ otp_storage[last'.key].attempts = MaxAttempts )
             => last'.key \notin DOMAIN otp_storage'
          /\ ( /\ last'.key \in DOMAIN otp_storage'
               /\ otp_storage'[last'.key].attempts = MaxAttempts )
             => (last'.result = "InvalidOtp" /\ last'.pre = MaxAttempts - 1)
          /\ last'.run = 3 => last'.key \in DOMAIN otp_storage'
          /\ last'.run = 4 => last'.key \notin DOMAIN otp_storage'
      ]_vars

C3_Witness ==
    /\ last.op = "verify" /\ last.run = 4
    /\ last.key \notin DOMAIN otp_storage

\* C4: verify on a record past its expiry fails with OtpExpired, whatever the
\* code and the attempt count, and the record is gone afterwards.
C4_ExpiredVerify ==
    [][ ( /\ last'.op = "verify"
          /\ last'.key \in DOMAIN otp_storage
          /\ now > otp_storage[last'.key].expiry )
        => /\ last'.result = "OtpExpired"
           /\ last'.key \notin DOMAIN otp_storage'
      ]_vars

C4_Witness ==
    /\ last.op = "verify" /\ last.result = "OtpExpired"
    /\ last.match /\ last.pre = MaxAttempts
    /\ last.key \notin DOMAIN otp_storage

\* C5: generate on a phone holding a non-expired record creates and sends no
\* code and leaves the record as it was.
C5_GenerateRefused ==
    [][ ( /\ last'.op = "generate"
          /\ Live(otp_storage, now, CleanPhone(strip(last'.phone))) )
        => /\ last'.result # "Created"
           /\ last'.code = NoStr
           /\ ~last'.sent
           /\ otp_storage' = otp_storage
      ]_vars

C5_Witness ==
    /\ last.op = "generate" /\ last.result = "AlreadySent"
    /\ last.pre > 0
    /\ last.key \in DOMAIN otp_storage

\* C8: every stored record has attempt_count in 0..3.
C8_AttemptsInRange ==
    \A k \in DOMAIN otp_storage : otp_storage[k].attempts \in 0..MaxAttempts

C8_Witness ==
    \E k \in DOMAIN otp_storage : otp_storage[k].attempts = MaxAttempts

\* C9 as stated: resend on a phone holding a still-valid record stores a code
\* different from the discarded one.
C9_ResendCodeDiffers ==
    [][ ( /\ last'.op = "resend" /\ last'.result = "Created"
          /\ Live(otp_storage, now, last'.key) )
        => otp_storage'[last'.key].otp # otp_storage[last'.key].otp
      ]_vars

\* C9 amended: resend on a phone holding a still-valid record discards it and
\* stores a new record with a freshly drawn 6-digit code (which may equal the
\* discarded one), attempt_count 0 and expiry now + 5 minutes, and hands the
\* code to send_otp_sms.
C9_ResendFreshRecord ==
    [][ ( /\ last'.op = "resend" /\ last'.key # NoStr
          /\ Live(otp_storage, now, last'.key) )
        => /\ last'.result = "Created"
           /\ last'.key \in DOMAIN otp_storage'
           /\ otp_storage'[last'.key] =
                 [otp |-> last'.code, expiry |-> now + otp_expiry_minutes, attempts |-> 0]
           /\ isdigit(last'.code) /\ Len(last'.code) = OtpLength
           /\ last'.sent
      ]_vars

C9_Witness ==
    /\ last.op = "resend" /\ last.result = "Created" /\ last.pre > 0
    /\ now <= otp_expiry_minutes
    /\ otp_storage[last.key].attempts = 0

C6_OtpOnlyAfterFaceMatch == otp_storage # <<>> => face_matched

\* C6 amended: a generate-otp request for a valid phone holding no non-expired
\* record issues a record whether or not a face comparison has matched before,
\* and records are created by generate-otp and resend-otp requests only.
C6_IssuedWithoutFaceMatch ==
    [][ /\ ( /\ last'.op = "generate"
             /\ validate_phone(strip(last'.phone))
             /\ validate_phone(CleanPhone(strip(last'.phone)))
             /\ ~Live(otp_storage, now, CleanPhone(strip(last'.phone))) )
           => /\ last'.result = "Created"
              /\ last'.key \in DOMAIN otp_storage'
        /\ (\E k \in DOMAIN otp_storage' : k \notin DOMAIN otp_storage)
           => last'.op \in {"generate", "resend"}
      ]_vars

C6_Witness ==
    /\ otp_storage # <<>>
    /\ ~face_matched
    /\ last.op = "compare" /\ last.status = 200 /\ ~last.is_match

(* ---------------- properties of concurrent requests ---------------- *)
\* C7: whatever the order in which concurrent verify requests for one phone
\* are run, at most one of them succeeds for one issued record and at most 3
\* of them pass the attempt-limit check.
C7_ConcurrentVerifyAtomic ==
    \A k \in DOMAIN tally :
        /\ tally[k].verified <= 1
        /\ tally[k].compared <= MaxAttempts

C7_Witness ==
    /\ overlap
    /\ last.op = "verify" /\ last.result = "AttemptsExceeded" /\ last.match
    /\ tally[last.key].compared = MaxAttempts

(* ---------------- properties of the store keys ---------------- *)
\* C11: every key of the OTP store is a string of exactly 10 digits whose
\* first digit is 6, 7, 8 or 9.
C11_KeysNormalized ==
    \A k \in DOMAIN otp_storage :
        /\ Len(k) = 10
        /\ \A i \in 1..Len(k) : k[i] \in Digits
        /\ k[1] \in {"6", "7", "8", "9"}

(* ---------------- properties of verify and status ---------------- *)
\* the verify call handled in this step reached OTPService.verify_otp with a
\* phone that holds a record not past its expiry
VerifyOnLive ==
    /\ last'.op = "verify" /\ last'.key # NoStr
    /\ Live(otp_storage, now, last'.key)

\* C18: a wrong code on a non-expired record with attempt_count n < 3 raises
\* attempt_count to n + 1, keeps the record with its code and expiry, and
\* fails with InvalidOtp reporting 3 - (n + 1) attempts remaining.
C18_WrongCodeCountsOne ==
    [][ ( /\ VerifyOnLive
          /\ otp_storage[last'.key].attempts < MaxAttempts
          /\ strip(last'.otp) # otp_storage[last'.key].otp )
        => /\ last'.key \in DOMAIN otp_storage'
           /\ otp_storage'[last'.key] =
                 [otp      |-> otp_storage[last'.key].otp,
                  expiry   |-> otp_storage[last'.key].expiry,
                  attempts |-> otp_storage[last'.key].attempts + 1]
           /\ last'.result = "InvalidOtp"
           /\ last'.remaining = MaxAttempts - (otp_storage[last'.key].attempts + 1)
      ]_vars

C18_Witness ==
    /\ last.op = "verify" /\ last.result = "InvalidOtp"
    /\ last.pre = 1 /\ last.remaining = 1
    /\ otp_storage[last.key].attempts = 2

\* C19: on a non-expired record with attempt_count 3 verify fails with
\* AttemptsExceeded whatever the code is and deletes the record; the correct
\* code supplied at attempt_count 2 still succeeds.
C19_ExhaustedBeforeCompare ==
    [][ /\ ( /\ VerifyOnLive
             /\ otp_storage[last'.key].attempts = MaxAttempts )
           => /\ last'.result = "AttemptsExceeded"
              /\ last'.key \notin DOMAIN otp_storage'
        /\ ( /\ VerifyOnLive
             /\ otp_storage[last'.key].attempts = MaxAttempts - 1
             /\ strip(last'.otp) = otp_storage[last'.key].otp )
           => /\ last'.result = "Verified"
              /\ last'.key \notin DOMAIN otp_storage'
      ]_vars

C19_Witness ==
    /\ last.op = "verify" /\ last.result = "AttemptsExceeded"
    /\ last.match /\ last.pre = MaxAttempts
    /\ now <= otp_expiry_minutes

\* C20: status leaves a non-expired record as it is and reports it with
\* 3 - attempt_count attempts remaining and a non-negative time to expiry; it
\* deletes a record past expiry and reports absence; records of other phones
\* are never changed.
C20_StatusReadOnly ==
    [][ last'.op = "status" =>
          LET key == CleanPhone(last'.phone)
          IN  /\ \A k \in (DOMAIN otp_storage \cup DOMAIN otp_storage') \ {key} :
                    /\ k \in DOMAIN otp_storage /\ k \in DOMAIN otp_storage'
                    /\ otp_storage'[k] = otp_storage[k]
              /\ Live(otp_storage, now, key)
                 => /\ otp_storage' = otp_storage
                    /\ last'.result = "OtpValid"
                    /\ last'.remaining = MaxAttempts - otp_storage[key].attempts
                    /\ last'.expires_in >= 0
              /\ (key \in DOMAIN otp_storage /\ now > otp_storage[key].expiry)
                 => /\ key \notin DOMAIN otp_storage'
                    /\ last'.result = "OtpExpired"
      ]_vars

C20_Witness ==
    /\ last.op = "status" /\ last.result = "OtpExpired" /\ last.pre > 0
    /\ otp_storage # <<>>

(* ---------------- properties of the ORB comparison ---------------- *)
\* the image has a detected face whose region gives at least MinFeatures descriptors
Comparable(image) ==
    /\ detect_faces_opencv(image) # <<>>
    /\ LargestFace(detect_faces_opencv(image)).has_desc
    /\ Len(LargestFace(detect_faces_opencv(image)).desc) >= MinFeatures

Descriptors(image) == LargestFace(detect_faces_opencv(image)).desc

\* the call made last is compare_faces_yolo on two comparable images with a
\* matcher that returned
Scored ==
    /\ face_call.op = "compare_faces_yolo"
    /\ Comparable(face_call.aadhaar) /\ Comparable(face_call.live)
    /\ face_call.flann_ok \/ face_call.bf_ok

\* C12: for descriptor sets of sizes a and b, both at least 5, with g good
\* matches after the ratio test, the confidence is min(100, 100 * g / min(a, b))
\* and matched is (confidence >= 15); with g = 0 the confidence is 0 and
\* matched is false.
C12_ConfidenceFormula ==
    Scored =>
        LET a == Len(Descriptors(face_call.aadhaar))
            b == Len(Descriptors(face_call.live))
            pairs == knnMatch(Descriptors(face_call.aadhaar), Descriptors(face_call.live))
            g == Cardinality({q \in DOMAIN pairs : RatioTest(pairs[q])})
            c == face_call.result.confidence
        IN  /\ face_call.result.success
            /\ face_call.result.good_matches = g
            /\ c[1] * Smaller(a, b) = Smaller(100 * Smaller(a, b), 100 * g) * c[2]
            /\ face_call.result.match <=> (c[1] >= match_threshold * c[2])
            /\ face_call.result.match <=> (100 * g >= match_threshold * Smaller(a, b))
            /\ g = 0 => (c[1] = 0 /\ ~face_call.result.match)

C12_Witness ==
    /\ Scored
    /\ face_call.result.good_matches = 1
    /\ face_call.result.total_features = 7
    /\ ~face_call.result.match

(* ---------------- properties of the comparison results ---------------- *)
YoloErrors ==
    {"Could not detect face in Aadhaar photo",
     "Could not detect face in live photo",
     "Could not extract sufficient features from faces",
     "Insufficient features detected in faces for comparison",
     "Feature matching failed"}

ErrorTypes ==
    {"DECODE_ERROR", "NO_FACE_REFERENCE", "NO_FACE_LIVE",
     "MULTIPLE_FACES_REFERENCE", "MULTIPLE_FACES_LIVE", "COMPARISON_ERROR"}

\* C13: a comparison result is either an error result, with one error
\* classification, matched false and confidence 0, or a verdict without an
\* error classification; a comparison scored below the threshold is a
\* successful result with matched false and no error.
C13_ErrorOrVerdict ==
    /\ face_call.op = "compare_faces_yolo" =>
          LET r == face_call.result
          IN  /\ \/ ~r.success /\ r.error \in YoloErrors /\ ~r.match /\ r.confidence[1] = 0
                 \/ r.success /\ r.error = ""
              /\ (Scored /\ ~AtLeast(r.confidence, match_threshold))
                 => (r.success /\ ~r.match /\ r.error = "")
    /\ face_call.op = "compare_faces" =>
          LET r == face_call.result
          IN  \/ r.error_type \in ErrorTypes /\ ~r.match /\ r.confidence[1] = 0
              \/ r.error_type = "None"

C13_Witness ==
    /\ Scored
    /\ face_call.result.success /\ face_call.result.error = ""
    /\ ~face_call.result.match /\ face_call.result.good_matches = 0

\* the sides for which the result of a comparison reports that no face was found
NoFaceSides(call) ==
    IF call.op = "compare_faces_yolo"
    THEN (IF call.result.error = "Could not detect face in Aadhaar photo"
          THEN {"reference"} ELSE {})
         \cup (IF call.result.error = "Could not detect face in live photo"
               THEN {"live"} ELSE {})
    ELSE (IF call.result.error_type = "NO_FACE_REFERENCE" THEN {"reference"} ELSE {})
         \cup (IF call.result.error_type = "NO_FACE_LIVE" THEN {"live"} ELSE {})

\* the call made last compared two readable images in which no face is found
NeitherHasFace ==
    /\ face_call.op \in {"compare_faces_yolo", "compare_faces"}
    /\ face_call.aadhaar.decodable /\ face_call.aadhaar.faces = <<>>
    /\ face_call.live.decodable /\ face_call.live.faces = <<>>

\* C14 as stated: when neither image has a detectable face the result is
\* matched false and reports the missing face for both sides.
C14_NoFaceBothSides ==
    NeitherHasFace =>
        /\ ~face_call.result.match
        /\ NoFaceSides(face_call) = {"reference", "live"}

\* C14: when neither image has a detectable face the result is matched false
\* with confidence 0 and reports the missing face for the reference image,
\* which is checked first, and not for the live image.
C14_NoFaceReferenceOnly ==
    NeitherHasFace =>
        /\ ~face_call.result.match
        /\ face_call.result.confidence[1] = 0
        /\ NoFaceSides(face_call) = {"reference"}

C14_Witness ==
    /\ NeitherHasFace
    /\ face_call.op = "compare_faces_yolo"
    /\ NoFaceSides(face_call) = {"reference"}

FeatureErrors ==
    {"Could not extract sufficient features from faces",
     "Insufficient features detected in faces for comparison"}

\* a face is detected in the image but its region gives no descriptors or
\* fewer than MinFeatures
FewFeatures(image) ==
    /\ detect_faces_opencv(image) # <<>>
    /\ \/ ~LargestFace(detect_faces_opencv(image)).has_desc
       \/ Len(LargestFace(detect_faces_opencv(image)).desc) < MinFeatures

\* C15: when a face is found in both images and the descriptors of either are
\* missing or fewer than 5, the result is a feature error with success false,
\* matched false and confidence 0, and no matcher has run.
C15_FewFeaturesIsError ==
    ( /\ face_call.op = "compare_faces_yolo"
      /\ detect_faces_opencv(face_call.aadhaar) # <<>>
      /\ detect_faces_opencv(face_call.live) # <<>>
      /\ FewFeatures(face_call.aadhaar) \/ FewFeatures(face_call.live) )
    => /\ ~face_call.result.success
       /\ face_call.result.error \in FeatureErrors
       /\ ~face_call.result.match
       /\ face_call.result.confidence[1] = 0
       /\ ~face_call.result.flann_run /\ ~face_call.result.bf_run

C15_Witness ==
    /\ face_call.op = "compare_faces_yolo"
    /\ Comparable(face_call.aadhaar)
    /\ FewFeatures(face_call.live)
    /\ Len(Descriptors(face_call.live)) = 4
    /\ face_call.flann_ok
    /\ face_call.result.error = "Insufficient features detected in faces for comparison"

\* C16: comparing an image that has a detectable face and at least 5
\* descriptors with itself yields matched true with a confidence of at least 15.
C16_SelfCompareMatches ==
    (Scored /\ face_call.aadhaar = face_call.live)
    => /\ face_call.result.success
       /\ face_call.result.match
       /\ AtLeast(face_call.result.confidence, match_threshold)

(* ---------------- properties of the quality validation ---------------- *)
NoFaceReasons == {"No face detected in image", "No face detected"}

\* C17: validating an image in which more than one face is detected returns
\* is_valid false with a reason that is not the no-face reason.
C17_MultipleFacesInvalid ==
    ( /\ face_call.op \in {"yolo_validate_face_quality", "validate_face_quality"}
      /\ Len(detect_faces_opencv(face_call.image)) > 1 )
    => /\ ~face_call.result.is_valid
       /\ face_call.result.reason \notin NoFaceReasons

(* ---------------- properties of sweep and resend ---------------- *)
\* C21: sweep removes exactly the records past expiry and returns their
\* number: afterwards no stored record is past expiry, every record not past
\* expiry is stored unchanged, and the count is the store size before minus
\* the store size after.
C21_SweepExact ==
    [][ last'.op = "sweep" =>
          /\ \A k \in DOMAIN otp_storage' : ~(now > otp_storage'[k].expiry)
          /\ \A k \in DOMAIN otp_storage :
                IF now > otp_storage[k].expiry
                THEN k \notin DOMAIN otp_storage'
                ELSE k \in DOMAIN otp_storage' /\ otp_storage'[k] = otp_storage[k]
          /\ DOMAIN otp_storage' \subseteq DOMAIN otp_storage
          /\ last'.count = Cardinality(DOMAIN otp_storage)
                             - Cardinality(DOMAIN otp_storage')
      ]_vars

C21_Witness ==
    /\ last.op = "sweep" /\ last.count = 1
    /\ \E k \in DOMAIN otp_storage : otp_storage[k].expiry = now

\* C22: resend with a phone that passes validation succeeds whatever is
\* stored for the phone (nothing, a record with any attempt count up to 3, a
\* record past expiry) and leaves under the phone one record with
\* attempt_count 0 and expiry now + 5 minutes.
C22_ResendFromAnyState ==
    [][ ( /\ last'.op = "resend"
          /\ validate_phone(CleanPhone(strip(last'.phone))) )
        => LET key == CleanPhone(strip(last'.phone))
           IN  /\ last'.status = 200 /\ last'.result = "Created"
               /\ key \in DOMAIN otp_storage'
               /\ otp_storage'[key].attempts = 0
               /\ otp_storage'[key].expiry = now + otp_expiry_minutes
               /\ otp_storage'[key].otp = last'.code
      ]_vars

C22_Witness ==
    /\ last.op = "resend" /\ last.result = "Created"
    /\ last.pre = MaxAttempts
    /\ otp_storage[last.key].attempts = 0
    /\ otp_storage[last.key].expiry = now + otp_expiry_minutes

(* ---------------- properties of the matcher fallback ---------------- *)
\* the call made last is compare_faces_yolo on two comparable images
ReachedMatching ==
    /\ face_call.op = "compare_faces_yolo"
    /\ Comparable(face_call.aadhaar) /\ Comparable(face_call.live)

\* C23: when the FLANN matcher fails the brute-force matcher is run once and
\* the verdict is computed from its matches; a matching error is returned only
\* when both matchers fail; the brute-force matcher is not run when the FLANN
\* matcher returned.
C23_BruteForceFallback ==
    ReachedMatching =>
        LET r     == face_call.result
            pairs == knnMatch(Descriptors(face_call.aadhaar), Descriptors(face_call.live))
            g     == Cardinality({q \in DOMAIN pairs : RatioTest(pairs[q])})
        IN  /\ r.flann_run
            /\ face_call.flann_ok => (r.success /\ ~r.bf_run)
            /\ ~face_call.flann_ok => r.bf_run
            /\ (~face_call.flann_ok /\ face_call.bf_ok)
               => /\ r.success /\ r.good_matches = g
                  /\ r.match <=> (100 * g >= match_threshold * r.total_features)
            /\ ~r.success <=> (~face_call.flann_ok /\ ~face_call.bf_ok)
            /\ ~r.success => r.error = "Feature matching failed"

C23_Witness ==
    /\ ReachedMatching
    /\ ~face_call.flann_ok /\ face_call.bf_ok
    /\ face_call.result.bf_run
    /\ face_call.result.success /\ face_call.result.match
    /\ face_call.result.good_matches = 7

(* ---------------- properties of undecodable images ---------------- *)
\* C24: detection on an undecodable image returns the empty sequence, and a
\* comparison with an undecodable image reports a failure whose classification
\* is not the no-face classification of either side.
C24_DecodeFailureDistinct ==
    ( /\ face_call.op \in {"compare_faces_yolo", "compare_faces"}
      /\ ~face_call.aadhaar.decodable \/ ~face_call.live.decodable )
    => /\ ~face_call.aadhaar.decodable => detect_faces_opencv(face_call.aadhaar) = <<>>
       /\ ~face_call.live.decodable => detect_faces_opencv(face_call.live) = <<>>
       /\ ~face_call.result.match
       /\ NoFaceSides(face_call) = {}

(* ---------------- properties of the guesses per record ---------------- *)
\* C25: between the creation of a record by generate or resend and its
\* deletion at most 3 verify calls reach the comparison with the stored code,
\* whatever status, sweep and generate calls come in between; while the record
\* is stored its attempt count is the number of comparisons made against it.
C25_AtMostThreeGuesses ==
    /\ \A k \in DOMAIN tally : tally[k].compared <= MaxAttempts
    /\ \A k \in DOMAIN otp_storage :
          k \in DOMAIN tally /\ tally[k].compared = otp_storage[k].attempts

C25_Witness ==
    /\ last.op = "generate" /\ last.result = "AlreadySent"
    /\ last.key \in DOMAIN otp_storage
    /\ tally[last.key].compared = MaxAttempts

(* ---------------- properties of the face sessions ---------------- *)
\* C26: the session id assigned by an upload is not the id of a session that
\* is stored in uploaded_images when the upload is made.
C26_UploadNeverOverwrites ==
    [][ ( /\ last'.op \in {"upload_aadhaar", "upload_live"}
          /\ last'.status = 200 )
        => last'.session \notin DOMAIN uploaded_images
      ]_vars

(* ---------------- properties of concurrent generate requests ---------------- *)
\* the step runs a waiting generate-otp request to completion
GenerateRan ==
    \E slot \in DOMAIN pending :
        pending[slot].op = "generate" /\ pending'[slot] = NoRequest

C28_MalformedVerifyNoEffect ==
    [][ ( /\ last'.op = "verify"
          /\ \/ ~validate_phone(strip(last'.phone))
             \/ Len(strip(last'.otp)) # OtpLength
             \/ \E i \in 1..Len(strip(last'.otp)) : strip(last'.otp)[i] \notin Digits )
        => /\ otp_storage' = otp_storage
           /\ last'.status = 400
           /\ last'.result \in {"InvalidPhone", "InvalidOtpFormat"}
           /\ last'.key = NoStr
      ]_vars

C28_Witness ==
    /\ last.op = "verify" /\ last.result = "InvalidOtpFormat"
    /\ last.otp = OtpLetter
    /\ CleanPhone(strip(last.phone)) \in DOMAIN otp_storage
    /\ otp_storage[CleanPhone(strip(last.phone))].attempts = MaxAttempts

\* the store key a request of the given kind for the supplied phone works on
KeyOf(op, phone) == IF op = "status" THEN CleanPhone(phone) ELSE CleanPhone(strip(phone))

\* C29: generate, verify, status and resend for a phone leave the record of
\* every other phone as it is (presence, code, expiry, attempt count), whether
\* the call succeeds or fails.
C29_OtherPhonesUnchanged ==
    [][ last'.op \in {"generate", "verify", "status", "resend"} =>
          \A k \in (DOMAIN otp_storage \cup DOMAIN otp_storage')
                     \ {KeyOf(last'.op, last'.phone)} :
              /\ k \in DOMAIN otp_storage /\ k \in DOMAIN otp_storage'
              /\ otp_storage'[k] = otp_storage[k]
      ]_vars

C29_Witness ==
    /\ last.op = "verify" /\ last.result = "Verified"
    /\ \E k \in DOMAIN otp_storage : k # last.key /\ otp_storage[k].attempts > 0

\* C30: the verify-otp endpoint answers 400 for a wrong code, an expired
\* record and an exhausted record, with the service's reason, and 500 for any
\* other failure of the service's verify, "No OTP found for this phone number"
\* included.
C30_VerifyStatusCodes ==
    [][ (last'.op = "verify" /\ last'.key # NoStr) =>
          /\ last'.result \in {"Verified", "InvalidOtp", "OtpExpired",
                               "AttemptsExceeded", "NoOtpFound", "InvalidPhone"}
          /\ last'.result = "Verified" <=> last'.status = 200
          /\ last'.result \in {"InvalidOtp", "OtpExpired", "AttemptsExceeded"}
             <=> last'.status = 400
          /\ last'.result \in {"NoOtpFound", "InvalidPhone"} <=> last'.status = 500
          /\ (validate_phone(last'.key) /\ last'.key \notin DOMAIN otp_storage)
             => last'.result = "NoOtpFound"
          /\ last'.result = "InvalidOtp"
             => last'.remaining = MaxAttempts - otp_storage'[last'.key].attempts
      ]_vars

C30_Witness ==
    /\ last.op = "verify" /\ last.result = "NoOtpFound" /\ last.status = 500
    /\ otp_storage # <<>>

====
